---- MODULE Spec2Model ----
(***************************************************************************)
(* Model of epg_parser.py: the 12-hour time normalizer, the line-oriented  *)
(* schedule parser, the calendar projection / document builder and the     *)
(* main loop over the mapped schedule files.                               *)
(*                                                                         *)
(* Text is modelled as a sequence of one-character strings, so that the    *)
(* regular expressions, strip(), upper() and replace() act on characters.  *)
(* A datetime is modelled as the number of minutes since midnight of the   *)
(* anchor date (datetime.now().date()); naive datetimes are ordered and    *)
(* added exactly like these integers.                                      *)
(***************************************************************************)
EXTENDS Integers, Sequences, FiniteSets, TLC

VARIABLES
    tok,          \* parse_time_to_24h: the argument time_str
    tokParts,     \* ghost: the pieces tok was assembled from
    tres,         \* parse_time_to_24h: the returned (hour, minute)
    tpc,          \* position of the caller of parse_time_to_24h
    all_programs, \* main / generate_xmltv: the accumulated program records
    today,        \* weekday (0 = Monday) of datetime.now().date()
    days,         \* the configured window length EPG_SCHEDULE_DAYS
    doc,          \* the document generate_xmltv returned
    pc,           \* position in main
    dir,          \* os.listdir('.'): [name, content] in listing order
    fidx,         \* main: index in dir of the file of the current iteration
    written,      \* main: epg.xml has been written
    line_num,     \* parse_schedule_file: lines read so far
    pstate,       \* parse_schedule_file: current_day, programs, diagnostics
    outcome       \* ghost: per file "pending", "skipped", "ok" or "error"

tvars == <<tok, tokParts, tres, tpc>>
gvars == <<all_programs, today, days, doc, pc>>
mvars == <<dir, fidx, written, line_num, pstate, outcome>>
vars == <<tok, tokParts, tres, tpc, all_programs, today, days, doc, pc,
          dir, fidx, written, line_num, pstate, outcome>>

(***************************************************************************)
(* Characters                                                              *)
(***************************************************************************)
Digits == {"0", "1", "2", "3", "4", "5", "6", "7", "8", "9"}

DigitVal(c) ==
    CASE c = "0" -> 0 [] c = "1" -> 1 [] c = "2" -> 2 [] c = "3" -> 3
      [] c = "4" -> 4 [] c = "5" -> 5 [] c = "6" -> 6 [] c = "7" -> 7
      [] c = "8" -> 8 [] c = "9" -> 9

\* the characters str.strip() removes and \s matches
Whitespace == {" ", "\t", "\r", "\n"}

UpperChar(c) ==
    CASE c = "a" -> "A" [] c = "b" -> "B" [] c = "c" -> "C" [] c = "d" -> "D"
      [] c = "e" -> "E" [] c = "f" -> "F" [] c = "g" -> "G" [] c = "h" -> "H"
      [] c = "i" -> "I" [] c = "j" -> "J" [] c = "k" -> "K" [] c = "l" -> "L"
      [] c = "m" -> "M" [] c = "n" -> "N" [] c = "o" -> "O" [] c = "p" -> "P"
      [] c = "q" -> "Q" [] c = "r" -> "R" [] c = "s" -> "S" [] c = "t" -> "T"
      [] c = "u" -> "U" [] c = "v" -> "V" [] c = "w" -> "W" [] c = "x" -> "X"
      [] c = "y" -> "Y" [] c = "z" -> "Z" [] OTHER -> c

\* str.upper()
Upper(s) == [i \in 1..Len(s) |-> UpperChar(s[i])]

\* number of leading characters of s, from position i on, that are in set cs
RECURSIVE RunLen(_, _, _)
RunLen(s, i, cs) ==
    IF i <= Len(s) /\ s[i] \in cs THEN 1 + RunLen(s, i + 1, cs) ELSE 0

\* number of trailing whitespace characters of s
RECURSIVE TrailLen(_, _)
TrailLen(s, i) ==
    IF i >= 1 /\ s[i] \in Whitespace THEN 1 + TrailLen(s, i - 1) ELSE 0

\* str.strip()
StripLead(s, lead) ==
    IF lead = Len(s) THEN << >>
    ELSE SubSeq(s, lead + 1, Len(s) - TrailLen(s, Len(s)))

Strip(s) == StripLead(s, RunLen(s, 1, Whitespace))

\* str.replace('NN', 'PM'): non-overlapping occurrences, left to right
RECURSIVE ReplaceNN(_)
ReplaceNN(s) ==
    IF Len(s) < 2 THEN s
    ELSE IF s[1] = "N" /\ s[2] = "N"
         THEN <<"P", "M">> \o ReplaceNN(SubSeq(s, 3, Len(s)))
         ELSE <<s[1]>> \o ReplaceNN(Tail(s))

(***************************************************************************)
(* parse_time_to_24h                                                       *)
(***************************************************************************)
None == -1
NoneNone == <<None, None>>

\* %I of datetime.strptime: 1[0-2]|0[1-9]|[1-9]; the length it matches at
\* the start of s (0: no match).  The shorter alternative [1-9] can never
\* rescue a failed longer one, because ':' would have to match a digit.
HourLen(s) ==
    IF Len(s) >= 2 /\ s[1] = "1" /\ s[2] \in {"0", "1", "2"} THEN 2
    ELSE IF Len(s) >= 2 /\ s[1] = "0" /\ s[2] \in (Digits \ {"0"}) THEN 2
    ELSE IF Len(s) >= 1 /\ s[1] \in (Digits \ {"0"}) THEN 1
    ELSE 0

\* %M of datetime.strptime: [0-5]\d|\d, matched at position i of s
MinuteLen(s, i) ==
    IF Len(s) >= i + 1 /\ s[i] \in {"0", "1", "2", "3", "4", "5"}
                       /\ s[i + 1] \in Digits THEN 2
    ELSE IF Len(s) >= i /\ s[i] \in Digits THEN 1
    ELSE 0

RECURSIVE NumVal(_)
NumVal(ds) ==
    IF Len(ds) = 0 THEN 0
    ELSE 10 * NumVal(SubSeq(ds, 1, Len(ds) - 1)) + DigitVal(ds[Len(ds)])

\* the 12-hour to 24-hour step of strptime
Hour24Bug(hour, pm) ==
    IF pm THEN hour + 12 ELSE hour

Hour24(hour, pm) ==
    IF pm THEN (IF hour # 12 THEN hour + 12 ELSE hour)
    ELSE (IF hour = 12 THEN 0 ELSE hour)

\* the fields of the match once their lengths are known: hl the hour's,
\* ml the minute's, wl that of the whitespace before the marker
StrptimeFields(s, withSpace, hl, ml, wl) ==
    IF /\ hl > 0
       /\ Len(s) >= hl + 1 /\ s[hl + 1] = ":"
       /\ ml > 0
       /\ (IF withSpace THEN wl >= 1 ELSE wl = 0)
       /\ Len(s) = hl + ml + wl + 3
       /\ s[hl + ml + wl + 2] \in {"A", "P"} /\ s[hl + ml + wl + 3] = "M"
    THEN <<Hour24(NumVal(SubSeq(s, 1, hl)), s[hl + ml + wl + 2] = "P"),
           NumVal(SubSeq(s, hl + 2, hl + ml + 1))>>
    ELSE NoneNone

StrptimeMinute(s, withSpace, hl, ml) ==
    StrptimeFields(s, withSpace, hl, ml, RunLen(s, hl + ml + 2, Whitespace))

StrptimeHour(s, withSpace, hl) ==
    StrptimeMinute(s, withSpace, hl, MinuteLen(s, hl + 2))

\* datetime.strptime(s, '%I:%M %p') when withSpace, '%I:%M%p' otherwise;
\* NoneNone stands for the ValueError.  A blank of the format matches \s+.
Strptime(s, withSpace) == StrptimeHour(s, withSpace, HourLen(s))

\* the nested try blocks: the second format is tried when the first fails
FirstThatParses(spaced, unspaced) ==
    IF spaced # NoneNone THEN spaced ELSE unspaced

StrptimeEither(s) == FirstThatParses(Strptime(s, TRUE), Strptime(s, FALSE))

parse_time_to_24h(time_str) ==
    IF Len(time_str) = 0 THEN NoneNone
    ELSE StrptimeEither(ReplaceNN(Upper(Strip(time_str))))

(***************************************************************************)
(* Time tokens handed to parse_time_to_24h                                 *)
(***************************************************************************)
HourTexts ==
    {<<"0">>, <<"1">>, <<"9">>, <<"0", "5">>, <<"1", "1">>, <<"1", "2">>,
     <<"1", "3">>, <<"0", "0">>, <<"2", "0">>}
MinuteTexts ==
    {<<"0", "0">>, <<"0", "5">>, <<"3", "0">>, <<"5", "9">>, <<"6", "0">>,
     <<"9", "9">>, <<"7">>}
GapTexts == {<< >>, <<" ">>, <<" ", " ">>, <<"\t">>}
MarkerTexts ==
    {<<"A", "M">>, <<"a", "m">>, <<"P", "M">>, <<"p", "M">>, <<"N", "N">>,
     <<"n", "n">>, <<"N", "n">>, <<"X", "M">>, << >>}
PadTexts == {<< >>, <<" ">>}

TokenParts ==
    [lead : PadTexts, h : HourTexts, m : MinuteTexts, gap : GapTexts,
     mk : MarkerTexts, trail : PadTexts]

TokenText(p) == p.lead \o p.h \o <<":">> \o p.m \o p.gap \o p.mk \o p.trail

EmptyParts ==
    [lead |-> << >>, h |-> << >>, m |-> << >>, gap |-> << >>, mk |-> << >>,
     trail |-> << >>]

TimeIdle ==
    /\ tokParts = EmptyParts
    /\ tok = << >>
    /\ tres = NoneNone
    /\ tpc = "idle"

GenIdle ==
    /\ all_programs = << >>
    /\ today = 0
    /\ days = 0
    /\ doc = [channels |-> << >>, programmes |-> << >>]
    /\ pc = "idle"

NoDay == << >>

\* the locals of parse_schedule_file before the first line is read;
\* failed holds the line numbers of the FAILED TO PARSE diagnostics, and
\* lines is a ghost: the line number each collected program came from
ParseStart ==
    [current_day |-> NoDay, programs |-> << >>, failed |-> << >>,
     lines |-> << >>, parsed_programs |-> << >>]

MainIdle ==
    /\ dir = << >>
    /\ fidx = 0
    /\ written = FALSE
    /\ line_num = 0
    /\ pstate = ParseStart
    /\ outcome = << >>

InitTime ==
    /\ GenIdle
    /\ MainIdle
    /\ tokParts \in TokenParts \cup {EmptyParts}
    /\ tok = (IF tokParts = EmptyParts THEN << >> ELSE TokenText(tokParts))
    /\ tres = NoneNone
    /\ tpc = "call"

Normalize ==
    /\ tpc = "call"
    /\ tres' = parse_time_to_24h(tok)
    /\ tpc' = "returned"
    /\ UNCHANGED <<tok, tokParts>>
    /\ UNCHANGED <<gvars, mvars>>

NextTime == Normalize

SpecTime == InitTime /\ [][NextTime]_vars

(***************************************************************************)
(* Sorting: list.sort(key=...) and sorted() are stable and ascending.      *)
(* A key is a tuple of integers, compared like a Python tuple or string.   *)
(***************************************************************************)
RECURSIVE KeyLess(_, _)
KeyLess(a, b) ==
    IF Len(a) = 0 THEN Len(b) > 0
    ELSE IF Len(b) = 0 THEN FALSE
    ELSE IF a[1] # b[1] THEN a[1] < b[1]
    ELSE KeyLess(Tail(a), Tail(b))

\* x goes behind every element whose key is not greater than its own
RECURSIVE InsertSorted(_, _)
InsertSorted(sorted, x) ==
    IF Len(sorted) = 0 THEN <<x>>
    ELSE IF KeyLess(x.key, sorted[Len(sorted)].key)
         THEN InsertSorted(SubSeq(sorted, 1, Len(sorted) - 1), x)
                  \o <<sorted[Len(sorted)]>>
         ELSE sorted \o <<x>>

\* items: a sequence of [key, val]; the values in stable ascending key order
RECURSIVE SortItems(_)
SortItems(items) ==
    IF Len(items) = 0 THEN << >>
    ELSE InsertSorted(SortItems(SubSeq(items, 1, Len(items) - 1)),
                      items[Len(items)])

ValuesOf(items) == [i \in 1..Len(items) |-> items[i].val]

SortByKey(items) == ValuesOf(SortItems(items))

(***************************************************************************)
(* Configuration                                                           *)
(***************************************************************************)
EPG_SCHEDULE_DAYS == 28

MONDAY == <<"M", "O", "N", "D", "A", "Y">>
TUESDAY == <<"T", "U", "E", "S", "D", "A", "Y">>
WEDNESDAY == <<"W", "E", "D", "N", "E", "S", "D", "A", "Y">>
THURSDAY == <<"T", "H", "U", "R", "S", "D", "A", "Y">>
FRIDAY == <<"F", "R", "I", "D", "A", "Y">>
SATURDAY == <<"S", "A", "T", "U", "R", "D", "A", "Y">>
SUNDAY == <<"S", "U", "N", "D", "A", "Y">>

\* DAYS_OF_WEEK: position - 1 is the weekday index (Monday is 0)
DayNames == <<MONDAY, TUESDAY, WEDNESDAY, THURSDAY, FRIDAY, SATURDAY, SUNDAY>>

DAYS_OF_WEEK(name) == (CHOOSE i \in 1..7 : DayNames[i] = name) - 1

IsDayName(s) == \E i \in 1..7 : DayNames[i] = s

\* CHANNEL_MAP as a sequence of <<filename, channel id>>
CHANNEL_MAP ==
    <<<<<<"a", "b", "a", "n", "t", "e", ".", "t", "x", "t">>,
        <<"a", "b", "a", "n", "t", "e", ".", "p", "h">>>>,
      <<<<"a", "l", "i", "w", " ", "c", "h", "a", "n", "n", "e", "l", ".", "t", "x", "t">>,
        <<"a", "l", "i", "w", "c", "h", "a", "n", "n", "e", "l", ".", "p", "h">>>>,
      <<<<"c", "o", "n", "g", "r", "e", "s", "s", "t", "v", ".", "t", "x", "t">>,
        <<"c", "o", "n", "g", "r", "e", "s", "s", "t", "v", ".", "p", "h">>>>,
      <<<<"d", "z", "m", "m", ".", "t", "x", "t">>,
        <<"d", "z", "m", "m", ".", "p", "h">>>>,
      <<<<"d", "z", "r", "h", ".", "t", "x", "t">>,
        <<"d", "z", "r", "h", ".", "p", "h">>>>,
      <<<<"h", "b", "o", " ", "b", "o", "x", "i", "n", "g", ".", "t", "x", "t">>,
        <<"h", "b", "o", "b", "o", "x", "i", "n", "g", ".", "u", "s">>>>,
      <<<<"i", "h", "e", "a", "r", "t", "m", "o", "v", "i", "e", "s", ".", "t", "x", "t">>,
        <<"i", "h", "e", "a", "r", "t", "m", "o", "v", "i", "e", "s", ".", "p", "h">>>>,
      <<<<"l", "i", "g", "h", "t", "t", "v", ".", "t", "x", "t">>,
        <<"l", "i", "g", "h", "t", "t", "v", ".", "p", "h">>>>,
      <<<<"u", "n", "t", "v", ".", "t", "x", "t">>,
        <<"u", "n", "t", "v", ".", "p", "h">>>>>>

InChannelMap(name) == \E i \in 1..Len(CHANNEL_MAP) : CHANNEL_MAP[i][1] = name

ChannelOf(name) ==
    CHANNEL_MAP[CHOOSE i \in 1..Len(CHANNEL_MAP) : CHANNEL_MAP[i][1] = name][2]

ABANTE_PH == ChannelOf(<<"a", "b", "a", "n", "t", "e", ".", "t", "x", "t">>)
DZMM_PH == ChannelOf(<<"d", "z", "m", "m", ".", "t", "x", "t">>)
UNTV_PH == ChannelOf(<<"u", "n", "t", "v", ".", "t", "x", "t">>)

\* code points of the characters channel identifiers are made of
Alphabet ==
    <<"a", "b", "c", "d", "e", "f", "g", "h", "i", "j", "k", "l", "m",
      "n", "o", "p", "q", "r", "s", "t", "u", "v", "w", "x", "y", "z">>

Ord(c) ==
    IF c = "." THEN 46
    ELSE IF c = " " THEN 32
    ELSE 96 + (CHOOSE i \in 1..26 : Alphabet[i] = c)

StrKey(s) == [i \in 1..Len(s) |-> Ord(s[i])]

(***************************************************************************)
(* generate_xmltv                                                          *)
(***************************************************************************)
\* the distinct elements of a sequence, in order of first appearance
\* (the key order of the dict programs_by_channel)
RECURSIVE FirstSeen(_)
AppendIfNew(front, x) ==
    IF \E i \in 1..Len(front) : front[i] = x THEN front ELSE front \o <<x>>

FirstSeen(s) ==
    IF Len(s) = 0 THEN << >>
    ELSE AppendIfNew(FirstSeen(SubSeq(s, 1, Len(s) - 1)), s[Len(s)])

RECURSIVE SetToSeq(_)
SetToSeq(S) ==
    IF S = {} THEN << >>
    ELSE LET x == CHOOSE y \in S : TRUE IN <<x>> \o SetToSeq(S \ {x})

RECURSIVE Flatten(_)
Flatten(ss) ==
    IF Len(ss) = 0 THEN << >> ELSE ss[1] \o Flatten(Tail(ss))

\* chan_id.split('.')[0].upper()
DisplayName(chan_id) ==
    Upper(SubSeq(chan_id, 1, RunLen(chan_id, 1, {chan_id[i] : i \in 1..Len(chan_id)} \ {"."})))

KeyedById(ids) == [i \in 1..Len(ids) |-> [key |-> StrKey(ids[i]), val |-> ids[i]]]

\* sorted(list(set(p['channel_id'] for p in all_programs)))
ChannelIds(programs) ==
    SortByKey(KeyedById(SetToSeq({programs[i].channel_id : i \in 1..Len(programs)})))

ChannelElementsOf(ids) ==
    [i \in 1..Len(ids) |-> [id |-> ids[i], display_name |-> DisplayName(ids[i])]]

ChannelElements(programs) == ChannelElementsOf(ChannelIds(programs))

\* the keys of programs_by_channel in dict (insertion) order
ChannelLoopOrder(programs) ==
    FirstSeen([i \in 1..Len(programs) |-> programs[i].channel_id])

\* each record with the (hour, minute) its token normalizes to
Timed(programs) ==
    [k \in 1..Len(programs) |->
        [p |-> programs[k], hm |-> parse_time_to_24h(programs[k].time_str)]]

HasHour(t) == t.hm[1] # None

StartInstances(kept, chan_id, i) ==
    [k \in 1..Len(kept) |->
       [start_dt |-> i * 1440 + kept[k].hm[1] * 60 + kept[k].hm[2],
        title |-> kept[k].p.title,
        channel_id |-> chan_id]]

RecordsOfDay(programs_data, current_day_name) ==
    LET IsToday(p) == p.day = current_day_name
    IN  SelectSeq(programs_data, IsToday)

\* calendar day i of the window: its records that normalize, dated
DailyInstances(programs_data, chan_id, i, wd) ==
    StartInstances(
        SelectSeq(Timed(RecordsOfDay(programs_data, DayNames[((wd + i) % 7) + 1])),
                  HasHour),
        chan_id, i)

KeyedByStart(all) ==
    [k \in 1..Len(all) |-> [key |-> <<all[k].start_dt>>, val |-> all[k]]]

\* dated_programs before the sort, as [key, val] items
DatedItems(programs_data, chan_id, wd, n) ==
    KeyedByStart(Flatten([d \in 1..n |->
        DailyInstances(programs_data, chan_id, d - 1, wd)]))

DatedProgramsUnsorted(programs_data, chan_id, wd, n) ==
    ValuesOf(DatedItems(programs_data, chan_id, wd, n))

\* dated_programs after dated_programs.sort(key=start_dt)
DatedPrograms(programs_data, chan_id, wd, n) ==
    SortByKey(DatedItems(programs_data, chan_id, wd, n))

StopTimeFixed(dated_programs, i) == dated_programs[i].start_dt + 60

\* stop_dt of the i-th instance
StopTime(dated_programs, i) ==
    IF i + 1 <= Len(dated_programs) THEN dated_programs[i + 1].start_dt
    ELSE dated_programs[i].start_dt + 60

ProgrammeElements(dated_programs) ==
    [i \in 1..Len(dated_programs) |->
        [start |-> dated_programs[i].start_dt,
         stop |-> StopTime(dated_programs, i),
         channel |-> dated_programs[i].channel_id,
         title |-> Strip(dated_programs[i].title),
         desc |-> Strip(dated_programs[i].title)]]

\* programs_by_channel[chan_id]
ProgramsData(programs, chan_id) ==
    LET Of(p) == p.channel_id = chan_id IN SelectSeq(programs, Of)

\* the <programme> elements, channel by channel in the order given
ProgrammesInOrder(programs, order, wd, n) ==
    Flatten([k \in 1..Len(order) |->
        ProgrammeElements(DatedPrograms(ProgramsData(programs, order[k]),
                                        order[k], wd, n))])

generate_xmltv(programs, wd, n) ==
    [channels |-> ChannelElements(programs),
     programmes |-> ProgrammesInOrder(programs, ChannelLoopOrder(programs), wd, n)]

(***************************************************************************)
(* generate_xmltv called on its own, on any list of program records        *)
(***************************************************************************)
MaxRecords == 3

SeqsUpTo(S, n) == UNION {[1..k -> S] : k \in 0..n}

Rec(day, time_str, title, channel_id) ==
    [day |-> day, time_str |-> time_str, title |-> title,
     channel_id |-> channel_id]

T900AM == <<"9", ":", "0", "0", " ", "A", "M">>
T900am == <<"9", ":", "0", "0", "a", "m">>
T1000AM == <<"1", "0", ":", "0", "0", " ", "A", "M">>
T1230AM == <<"1", "2", ":", "3", "0", " ", "A", "M">>
T1130PM == <<"1", "1", ":", "3", "0", " ", "P", "M">>
T1200nn == <<"1", "2", ":", "0", "0", " ", "n", "n">>
T1300PM == <<"1", "3", ":", "0", "0", " ", "P", "M">>

\* records of three channels: out-of-order and equal start times, a
\* midnight and a late-evening start, and a token that does not normalize
GenRecords ==
    {Rec(MONDAY, T900AM, <<"A">>, ABANTE_PH),
     Rec(MONDAY, T1000AM, <<"B">>, ABANTE_PH),
     Rec(MONDAY, T900am, <<"C">>, ABANTE_PH),
     Rec(TUESDAY, T1230AM, <<"D">>, ABANTE_PH),
     Rec(MONDAY, T1300PM, <<"E">>, UNTV_PH),
     Rec(SUNDAY, T1130PM, <<"F">>, UNTV_PH),
     Rec(WEDNESDAY, T1200nn, <<"G">>, DZMM_PH)}

\* window lengths: EPG_SCHEDULE_DAYS is configuration read at call time
WindowLengths == {1, 2, 8, EPG_SCHEDULE_DAYS}

EmptyDoc == [channels |-> << >>, programmes |-> << >>]

InitGen ==
    /\ TimeIdle
    /\ MainIdle
    /\ all_programs \in SeqsUpTo(GenRecords, MaxRecords)
    /\ today \in 0..6
    /\ days \in WindowLengths
    /\ doc = EmptyDoc
    /\ pc = "call"

CallGenerate ==
    /\ pc = "call"
    /\ doc' = generate_xmltv(all_programs, today, days)
    /\ pc' = "returned"
    /\ UNCHANGED <<all_programs, today, days>>
    /\ UNCHANGED <<tvars, mvars>>

NextGen == CallGenerate

SpecGen == InitGen /\ [][NextGen]_vars

\* the same calls with the window length the module is configured with
InitGenConfigured == InitGen /\ days = EPG_SCHEDULE_DAYS

SpecGenConfigured == InitGenConfigured /\ [][NextGen]_vars

\* the programme elements of channel c, in document order
ProgrammesOf(c) ==
    LET Of(e) == e.channel = c IN SelectSeq(doc.programmes, Of)

ProgrammeChannels == {doc.programmes[i].channel : i \in 1..Len(doc.programmes)}

DeclaredChannels == {doc.channels[i].id : i \in 1..Len(doc.channels)}

\* C1: within every channel the programmes are in ascending start order,
\* each one but the last stops where the following one of the same channel
\* starts, and the last one stops exactly one hour after its own start.
C1_StopIsNextStart ==
    pc = "returned" =>
        \A c \in ProgrammeChannels :
            LET P == ProgrammesOf(c)
            IN  /\ \A i \in 1..(Len(P) - 1) :
                       /\ P[i].start <= P[i + 1].start
                       /\ P[i].stop = P[i + 1].start
                /\ P[Len(P)].stop = P[Len(P)].start + 60

\* C1 witness: MONDAY 9:00 AM A and MONDAY 10:00 AM B over a 2-day window
\* starting on a Monday: A stops at 10:00, B at 11:00.
C1_Witness ==
    /\ pc = "returned"
    /\ all_programs = <<Rec(MONDAY, T900AM, <<"A">>, ABANTE_PH),
                        Rec(MONDAY, T1000AM, <<"B">>, ABANTE_PH)>>
    /\ today = 0 /\ days = 2
    /\ Len(doc.programmes) = 2
    /\ doc.programmes[1].title = <<"A">> /\ doc.programmes[1].start = 540
    /\ doc.programmes[1].stop = 600
    /\ doc.programmes[2].title = <<"B">> /\ doc.programmes[2].start = 600
    /\ doc.programmes[2].stop = 660

\* C3 (as claimed): a channel element is declared for c if and only if
\* some programme element of the document has channel c.
C3_ChannelIffProgramme ==
    pc = "returned" => DeclaredChannels = ProgrammeChannels

\* C10: no programme stops before it starts, and a programme has zero
\* duration exactly when the next programme of its channel has the same
\* start.
C10_StopNotBeforeStart ==
    pc = "returned" =>
        \A c \in ProgrammeChannels :
            LET P == ProgrammesOf(c)
            IN  \A i \in 1..Len(P) :
                    /\ P[i].stop >= P[i].start
                    /\ (P[i].stop = P[i].start) <=>
                           (i < Len(P) /\ P[i + 1].start = P[i].start)

\* C10 witness: records given out of order with a duplicate start time
\* produce a zero-length programme.
C10_Witness ==
    /\ pc = "returned"
    /\ Len(all_programs) = 3
    /\ all_programs[1].time_str = T1000AM
    /\ all_programs[2].time_str = T900am
    /\ all_programs[3].time_str = T900AM
    /\ \E i \in 1..Len(doc.programmes) :
           doc.programmes[i].stop = doc.programmes[i].start

(***************************************************************************)
(* parse_schedule_file: the two line patterns                              *)
(***************************************************************************)
\* the dash characters other than the ASCII hyphen, as named characters
EnDash == "en-dash"
EmDash == "em-dash"

\* the character class [-<en dash>\s] of program_line_re
SeparatorClass == {"-", EnDash} \cup Whitespace

UpperAlphabet ==
    <<"A", "B", "C", "D", "E", "F", "G", "H", "I", "J", "K", "L", "M",
      "N", "O", "P", "Q", "R", "S", "T", "U", "V", "W", "X", "Y", "Z">>

LowerChar(c) ==
    IF \E i \in 1..26 : UpperAlphabet[i] = c
    THEN Alphabet[CHOOSE i \in 1..26 : UpperAlphabet[i] = c]
    ELSE c

\* str.lower()
Lower(s) == [i \in 1..Len(s) |-> LowerChar(s[i])]

\* sub in s
Contains(s, sub) ==
    \E i \in 1..(Len(s) - Len(sub) + 1) : SubSeq(s, i, i + Len(sub) - 1) = sub

\* str.replace(c, ''): the characters of s not in cs
RemoveChars(s, cs) == LET Keep(c) == c \notin cs IN SelectSeq(s, Keep)

\* the rest of the token once the hour has hl digits and wl whitespace
\* characters stand before the marker
TimeTokenRest(s, i, markers, hl, wl) ==
    IF /\ hl >= 1
       /\ Len(s) >= i + hl + 2
       /\ s[i + hl] = ":"
       /\ s[i + hl + 1] \in Digits /\ s[i + hl + 2] \in Digits
       /\ Len(s) >= i + hl + wl + 4
       /\ Upper(<<s[i + hl + wl + 3], s[i + hl + wl + 4]>>) \in markers
    THEN hl + wl + 5
    ELSE 0

TimeTokenHour(s, i, markers, hl) ==
    TimeTokenRest(s, i, markers, hl, RunLen(s, i + hl + 3, Whitespace))

\* \d{1,2}:\d{2}\s*(?:AM|PM|am|pm|nn) under re.I, matched at position i of
\* s: the length of the match, 0 when there is none.  Each piece has one
\* way to match, so backtracking never finds a second one.
TimeTokenLen(s, i, markers) ==
    TimeTokenHour(s, i, markers,
                  IF RunLen(s, i, Digits) >= 2 THEN 2 ELSE RunLen(s, i, Digits))

NoMatch == [ok |-> FALSE, time_str |-> << >>, title |-> << >>]

\* the groups of a match: lead whitespace characters, a token of tl
\* characters, a separator of sl characters (at least minSep), the title
Groups(line, lead, tl, sl, minSep) ==
    IF tl > 0 /\ sl >= minSep
    THEN [ok |-> TRUE,
          time_str |-> SubSeq(line, lead + 1, lead + tl),
          title |-> SubSeq(line, lead + tl + sl + 1, Len(line))]
    ELSE NoMatch

AfterToken(line, lead, tl, class, minSep) ==
    Groups(line, lead, tl, RunLen(line, lead + tl + 1, class), minSep)

AfterLead(line, lead, markers, class, minSep) ==
    AfterToken(line, lead, TimeTokenLen(line, lead + 1, markers), class, minSep)

\* ^\s*(token)SEP(.*)\s*$ where SEP takes the longest run of characters of
\* class, at least minSep of them, and (.*) the rest of the line
PatternMatch(line, markers, class, minSep) ==
    AfterLead(line, RunLen(line, 1, Whitespace), markers, class, minSep)

\* program_line_re.match(line): \s*[-<en dash>\s]+\s* is a non-empty run
\* of class characters
GeneralMatch(line) ==
    PatternMatch(line, {<<"A", "M">>, <<"P", "M">>, <<"N", "N">>},
                 SeparatorClass, 1)

\* lighttv_program_line_re.match(line): token, \s{2,}, (.*)
LightMatch(line) ==
    PatternMatch(line, {<<"A", "M">>, <<"P", "M">>}, Whitespace, 2)

LIGHTTV_TXT == <<"l", "i", "g", "h", "t", "t", "v", ".", "t", "x", "t">>

\* lines 83-90: the general pattern first, the lighttv one only if it fails
SecondPattern(match, line, filepath) ==
    IF ~match.ok /\ Contains(Lower(filepath), LIGHTTV_TXT)
    THEN LightMatch(line)
    ELSE match

MatchLine(line, filepath) == SecondPattern(GeneralMatch(line), line, filepath)

(***************************************************************************)
(* parse_schedule_file: the loop body and the final sort                   *)
(***************************************************************************)
\* which branch of the loop body a line takes
KindOf(current_day, line, upper_line, match) ==
    IF line = << >> THEN "blank"
    ELSE IF IsDayName(upper_line) THEN "header"
    ELSE IF current_day = NoDay THEN "noday"
    ELSE IF match.ok THEN (IF Strip(match.title) # << >> THEN "program"
                           ELSE "notitle")
    ELSE "failed"

ClassifyStripped(current_day, line, upper_line, match) ==
    [upper_line |-> upper_line,
     time_str |-> Strip(match.time_str),
     title |-> Strip(match.title),
     kind |-> KindOf(current_day, line, upper_line, match)]

ClassifyLine(current_day, line, filepath) ==
    ClassifyStripped(current_day, line,
                     RemoveChars(Upper(line), {"\r", "\n"}),
                     MatchLine(line, filepath))

\* what the loop body finds in a raw line: the branch it takes, the
\* upper-cased line and the stripped groups of the match
Classify(current_day, raw, filepath) ==
    ClassifyLine(current_day, Strip(Strip(raw)), filepath)

ApplyLineNoReset(st, c, num, channel_id) ==
    CASE c.kind = "header" ->
           (IF st.current_day = NoDay
            THEN [st EXCEPT !.current_day = c.upper_line] ELSE st)
      [] c.kind = "program" ->
           [st EXCEPT
              !.programs = Append(@,
                  [day |-> st.current_day, time_str |-> c.time_str,
                   title |-> c.title, channel_id |-> channel_id]),
              !.lines = Append(@, num)]
      [] c.kind = "failed" -> [st EXCEPT !.failed = Append(@, num)]
      [] OTHER -> st

ReadLineNoReset(st, raw, num, filepath, channel_id) ==
    ApplyLineNoReset(st, Classify(st.current_day, raw, filepath), num, channel_id)

\* the effect of a classified line c, read as line number num, on the locals
ApplyLine(st, c, num, channel_id) ==
    CASE c.kind = "header" -> [st EXCEPT !.current_day = c.upper_line]
      [] c.kind = "program" ->
           [st EXCEPT
              !.programs = Append(@,
                  [day |-> st.current_day, time_str |-> c.time_str,
                   title |-> c.title, channel_id |-> channel_id]),
              !.lines = Append(@, num)]
      [] c.kind = "failed" -> [st EXCEPT !.failed = Append(@, num)]
      [] OTHER -> st

\* one iteration of the loop over the lines (lines 68-105): the locals
\* after reading raw as line number num
ReadLine(st, raw, num, filepath, channel_id) ==
    ApplyLine(st, Classify(st.current_day, raw, filepath), num, channel_id)

SortKeyFields == {"hour", "minute", "day_index"}

WithSortKeys(kept) ==
    [i \in 1..Len(kept) |->
       [f \in DOMAIN kept[i].p \cup SortKeyFields |->
          CASE f = "hour" -> kept[i].hm[1]
            [] f = "minute" -> kept[i].hm[2]
            [] f = "day_index" -> DAYS_OF_WEEK(kept[i].p.day)
            [] OTHER -> kept[i].p[f]]]

\* lines 109-116: the records whose token normalizes, with the sort keys
ParsedPrograms(programs) == WithSortKeys(SelectSeq(Timed(programs), HasHour))

KeyedByClock(parsed) ==
    [i \in 1..Len(parsed) |->
        [key |-> <<parsed[i].hour, parsed[i].minute>>, val |-> parsed[i]]]

\* the key of line 119
KeyedByDayAndClock(parsed) ==
    [i \in 1..Len(parsed) |->
        [key |-> <<parsed[i].day_index, parsed[i].hour, parsed[i].minute>>,
         val |-> parsed[i]]]

\* lines 122-125
WithoutSortKeys(sorted) ==
    [i \in 1..Len(sorted) |->
       [f \in DOMAIN sorted[i] \ SortKeyFields |-> sorted[i][f]]]

SortedProgramsByClock(programs) ==
    WithoutSortKeys(SortByKey(KeyedByClock(ParsedPrograms(programs))))

\* lines 108-127: what parse_schedule_file returns for the collected programs
SortedPrograms(programs) ==
    WithoutSortKeys(SortByKey(KeyedByDayAndClock(ParsedPrograms(programs))))

\* the locals after the first n lines of content
RECURSIVE ParseLines(_, _, _, _)
ParseLines(content, n, filepath, channel_id) ==
    IF n = 0 THEN ParseStart
    ELSE ReadLine(ParseLines(content, n - 1, filepath, channel_id),
                  content[n], n, filepath, channel_id)

\* parse_schedule_file(filepath, channel_id) on a file that can be read
parse_schedule_file(content, filepath, channel_id) ==
    SortedPrograms(ParseLines(content, Len(content), filepath, channel_id).programs)

(***************************************************************************)
(* main                                                                    *)
(***************************************************************************)
CurName == dir[fidx].name
CurContent == dir[fidx].content
CurChannel == ChannelOf(Lower(CurName))

Parsing == pc = "parsing" /\ line_num < Len(CurContent)

\* lines 227-229: the next directory entry is not a mapped file
SkipUnmapped ==
    /\ pc = "loop" /\ fidx <= Len(dir)
    /\ ~InChannelMap(Lower(CurName))
    /\ outcome' = [outcome EXCEPT ![fidx] = "skipped"]
    /\ fidx' = fidx + 1
    /\ UNCHANGED <<pc, dir, written, line_num, pstate, all_programs, today,
                   days, doc>>
    /\ UNCHANGED tvars

\* lines 229-233, 56-67: a mapped file; parse_schedule_file is entered
OpenFile ==
    /\ pc = "loop" /\ fidx <= Len(dir)
    /\ InChannelMap(Lower(CurName))
    /\ pc' = "parsing"
    /\ line_num' = 0
    /\ pstate' = ParseStart
    /\ UNCHANGED <<dir, fidx, written, outcome, all_programs, today, days, doc>>
    /\ UNCHANGED tvars

\* the effect of one iteration of the loop over the lines
ReadNext ==
    /\ pstate' = ReadLine(pstate, CurContent[line_num + 1], line_num + 1,
                          CurName, CurChannel)
    /\ line_num' = line_num + 1
    /\ UNCHANGED <<pc, dir, fidx, written, outcome, all_programs, today,
                   days, doc>>
    /\ UNCHANGED tvars

NextKind == Classify(pstate.current_day, CurContent[line_num + 1], CurName).kind

\* lines 69-72: an empty line
ReadBlank ==
    /\ Parsing /\ NextKind = "blank"
    /\ ReadNext

\* lines 75-78: a day header
ReadDayHeader ==
    /\ Parsing /\ NextKind = "header"
    /\ ReadNext

\* lines 80-81: a line before the first day header
ReadBeforeFirstDay ==
    /\ Parsing /\ NextKind = "noday"
    /\ ReadNext

\* lines 92-102: a program line with a title
ReadProgram ==
    /\ Parsing /\ NextKind = "program"
    /\ ReadNext

\* lines 92-96: a line the pattern matches with an empty title
ReadEmptyTitle ==
    /\ Parsing /\ NextKind = "notitle"
    /\ ReadNext

\* lines 103-105: a line no pattern matches
ReadUnparsed ==
    /\ Parsing /\ NextKind = "failed"
    /\ ReadNext

ParseRaisesKeepPartial ==
    /\ pc = "parsing"
    /\ all_programs' = all_programs \o pstate.programs
    /\ outcome' = [outcome EXCEPT ![fidx] = "error"]
    /\ fidx' = fidx + 1
    /\ pc' = "loop"
    /\ UNCHANGED <<dir, written, line_num, pstate, today, days, doc>>
    /\ UNCHANGED tvars

\* lines 232-236: open() or the read of a line raises (missing or
\* unreadable file, decode error); main reports it and goes on
ParseRaises ==
    /\ pc = "parsing"
    /\ outcome' = [outcome EXCEPT ![fidx] = "error"]
    /\ fidx' = fidx + 1
    /\ pc' = "loop"
    /\ UNCHANGED <<dir, written, line_num, pstate, all_programs, today, days,
                   doc>>
    /\ UNCHANGED tvars

\* lines 108-127, 233-234: end of file; the sorted records are returned
\* and appended to all_programs
ParseReturns ==
    /\ pc = "parsing" /\ line_num = Len(CurContent)
    /\ pstate' = [pstate EXCEPT !.parsed_programs = SortedPrograms(pstate.programs)]
    /\ all_programs' = all_programs \o pstate'.parsed_programs
    /\ outcome' = [outcome EXCEPT ![fidx] = "ok"]
    /\ fidx' = fidx + 1
    /\ pc' = "loop"
    /\ UNCHANGED <<dir, written, line_num, today, days, doc>>
    /\ UNCHANGED tvars

\* lines 238-240
NoProgramsFound ==
    /\ pc = "loop" /\ fidx > Len(dir)
    /\ all_programs = << >>
    /\ pc' = "exit"
    /\ UNCHANGED <<dir, fidx, written, line_num, pstate, outcome,
                   all_programs, today, days, doc>>
    /\ UNCHANGED tvars

\* lines 242-249: the document is generated for today's date and written
WriteDocument ==
    /\ pc = "loop" /\ fidx > Len(dir)
    /\ all_programs # << >>
    /\ \E wd \in 0..6 :
          /\ today' = wd
          /\ doc' = generate_xmltv(all_programs, wd, days)
    /\ written' = TRUE
    /\ pc' = "done"
    /\ UNCHANGED <<dir, fidx, line_num, pstate, outcome, all_programs, days>>
    /\ UNCHANGED tvars

NextMain ==
    \/ SkipUnmapped
    \/ OpenFile
    \/ ReadBlank
    \/ ReadDayHeader
    \/ ReadBeforeFirstDay
    \/ ReadProgram
    \/ ReadEmptyTitle
    \/ ReadUnparsed
    \/ ParseRaises
    \/ ParseReturns
    \/ NoProgramsFound
    \/ WriteDocument

(***************************************************************************)
(* Directories main runs on                                                *)
(***************************************************************************)
MaxFiles == 2
MaxLines == 3
MaxSep == 2

ABANTE_TXT == <<"a", "b", "a", "n", "t", "e", ".", "t", "x", "t">>
UNTV_TXT_UPPER == <<"U", "N", "T", "V", ".", "T", "X", "T">>
NOTES_TXT == <<"n", "o", "t", "e", "s", ".", "t", "x", "t">>
LIGHTTV_NAME == <<"L", "i", "g", "h", "t", "T", "V", ".", "t", "x", "t">>

L_Monday == MONDAY
L_Tuesday == <<" ", "T", "u", "e", "s", "d", "a", "y">>
L_Blank == <<" ", " ">>
L_900_A == <<"9", ":", "0", "0", " ", "A", "M", " ", "-", " ", "A">>
L_900_C == <<"9", ":", "0", "0", "a", "m", " ", " ", "C">>
L_830_B == <<"8", ":", "3", "0", "p", "m", " ", EnDash, "B">>
L_1000_B == <<"1", "0", ":", "0", "0", " ", "A", "M", " ", "-", " ", "B">>
L_1230_D == <<"1", "2", ":", "3", "0", " ", "A", "M", " ", "-", " ", "D">>
L_1300_E == <<"1", "3", ":", "0", "0", " ", "P", "M", " ", "-", " ", "E">>
L_Junk == <<"h", "e", "l", "l", "o">>
L_EmptyTitle == <<"9", ":", "0", "0", " ", "A", "M", " ", "-">>
L_BareTime == <<"9", ":", "0", "0", " ", "A", "M">>
L_EmSpaced == <<"9", ":", "0", "0", " ", "A", "M", " ", EmDash, " ", "A">>
L_EmTight == <<"9", ":", "0", "0", " ", "A", "M", EmDash, "A">>

\* the lines longer files are made of
LineSet ==
    {L_Monday, L_Tuesday, L_Blank, L_900_A, L_900_C, L_830_B, L_1300_E,
     L_Junk}

\* a file with a preamble line, MONDAY declared twice and a token that
\* does not normalize
RepeatedDays ==
    <<L_830_B, L_Monday, L_900_A, L_Tuesday, L_1230_D, L_1300_E, L_Monday,
      L_900_C>>

\* the contents of the files of a directory with several files
SmallFiles ==
    {<<L_Monday, L_1000_B, L_900_A>>,
     <<L_Tuesday, L_1230_D>>,
     <<L_Junk, L_Blank>>,
     <<L_Monday, L_1300_E>>,
     RepeatedDays,
     << >>}

\* token, separator, title: the separators are all the non-empty strings
\* of at most MaxSep characters among hyphen, en dash, em dash and blank
SepChars == {"-", EnDash, EmDash, " "}
Separators == SeqsUpTo(SepChars, MaxSep) \ {<< >>}
SepTokens == {T900AM, T900am, T1200nn, T1300PM}
SepTitles == {<<"A">>, <<"B", " ", "c">>, << >>}
SepLines == {t \o s \o x : t \in SepTokens, s \in Separators, x \in SepTitles}

Entry(name, content) == [name |-> name, content |-> content]

\* directory listings: some files in any order, or one file of many shapes
Directories ==
    {d \in SeqsUpTo({Entry(n, c) : n \in {ABANTE_TXT, UNTV_TXT_UPPER, NOTES_TXT},
                                   c \in SmallFiles}, MaxFiles) :
        \A i, j \in 1..Len(d) : i # j => d[i].name # d[j].name}
    \cup {<<Entry(ABANTE_TXT, c)>> : c \in SeqsUpTo(LineSet, MaxLines)}
    \cup {<<Entry(n, <<L_Monday, l>>)>> :
            n \in {ABANTE_TXT, LIGHTTV_NAME},
            l \in SepLines \cup {L_EmptyTitle, L_BareTime, L_EmSpaced, L_EmTight}}

InitMain ==
    /\ TimeIdle
    /\ dir \in Directories
    /\ fidx = 1
    /\ written = FALSE
    /\ line_num = 0
    /\ pstate = ParseStart
    /\ outcome = [i \in 1..Len(dir) |-> "pending"]
    /\ all_programs = << >>
    /\ today = 0
    /\ days = EPG_SCHEDULE_DAYS
    /\ doc = EmptyDoc
    /\ pc = "loop"

SpecMain == InitMain /\ [][NextMain]_vars

(***************************************************************************)
(* Properties of main and parse_schedule_file                              *)
(***************************************************************************)
Range(q) == {q[i] : i \in 1..Len(q)}

HeaderText(raw) == RemoveChars(Upper(Strip(raw)), {"\r", "\n"})

\* the number of the last day-header line of content before line i, or 0
LastHeader(content, i) ==
    LET hs == {j \in 1..(i - 1) : j <= Len(content) /\ IsDayName(HeaderText(content[j]))}
    IN  IF hs = {} THEN 0 ELSE CHOOSE j \in hs : \A k \in hs : k <= j

SeparatorClassWithEm == {"-", EnDash, EmDash} \cup Whitespace

\* the program grammar as the documentation words it: a time token, a
\* separator of hyphens, en dashes, em dashes and whitespace, then the title
DocumentedMatch(line) ==
    PatternMatch(line, {<<"A", "M">>, <<"P", "M">>, <<"N", "N">>},
                 SeparatorClassWithEm, 1)

DocumentedProgramLine(raw) ==
    /\ DocumentedMatch(Strip(raw)).ok
    /\ Strip(DocumentedMatch(Strip(raw)).title) # << >>

\* C2 (as claimed): the programme elements of the written document are in
\* ascending order of channel identifier and, within a channel, of start,
\* whatever the order in which the directory listed the files.
C2_ProgrammesInChannelOrder ==
    pc = "done" =>
        \A i, j \in 1..Len(doc.programmes) :
            i < j =>
                \/ KeyLess(StrKey(doc.programmes[i].channel),
                           StrKey(doc.programmes[j].channel))
                \/ /\ doc.programmes[i].channel = doc.programmes[j].channel
                   /\ doc.programmes[i].start <= doc.programmes[j].start

\* C4: the day cursor starts unset and always is the last day header read;
\* every collected record carries the day of the last header before its
\* line; a line before the first header gives no record and no diagnostic;
\* every program line after a header is collected, also when its weekday
\* is declared more than once.
C4_DayCursor ==
    pc = "parsing" =>
        LET c == CurContent
            last == LastHeader(c, line_num + 1)
        IN  /\ pstate.current_day =
                   (IF last = 0 THEN NoDay ELSE HeaderText(c[last]))
            /\ Len(pstate.lines) = Len(pstate.programs)
            /\ \A k \in 1..Len(pstate.programs) :
                   LET h == LastHeader(c, pstate.lines[k])
                   IN  /\ h > 0
                       /\ pstate.programs[k].day = HeaderText(c[h])
            /\ \A k \in 1..Len(pstate.failed) :
                   LastHeader(c, pstate.failed[k]) > 0
            /\ \A i \in 1..line_num :
                   (/\ LastHeader(c, i) > 0
                    /\ ~IsDayName(HeaderText(c[i]))
                    /\ MatchLine(Strip(c[i]), CurName).ok
                    /\ Strip(MatchLine(Strip(c[i]), CurName).title) # << >>)
                   => Cardinality({k \in 1..Len(pstate.lines) :
                                       pstate.lines[k] = i}) = 1

\* C4 witness: a file with a program line before the first header and
\* MONDAY declared twice has been read to its end.
C4_Witness ==
    /\ pc = "parsing"
    /\ CurContent = RepeatedDays
    /\ line_num = Len(RepeatedDays)
    /\ pstate.lines = <<3, 5, 6, 8>>
    /\ [k \in 1..4 |-> pstate.programs[k].day]
           = <<MONDAY, TUESDAY, TUESDAY, MONDAY>>
    /\ pstate.failed = << >>

\* C5 (as claimed): every non-blank line read while a day is active that
\* is no day header and no program line (token, separator, non-empty
\* title) is reported as unparsed and gives no record.
C5_UnmatchedLinesReported ==
    pc = "parsing" =>
        \A i \in 1..line_num :
            (/\ LastHeader(CurContent, i) > 0
             /\ Strip(CurContent[i]) # << >>
             /\ ~IsDayName(HeaderText(CurContent[i]))
             /\ ~DocumentedProgramLine(CurContent[i]))
            => /\ i \in Range(pstate.failed)
               /\ i \notin Range(pstate.lines)

\* C6 (as claimed): while a day is active, a line made of an accepted time
\* token, a separator of hyphens, en dashes, em dashes and whitespace, and
\* a non-empty title gives exactly one record, with the trimmed token and
\* exactly the trimmed title, and is not reported as unparsed.
C6_SeparatorNotInTitle ==
    pc = "parsing" =>
        \A i \in 1..line_num :
            LET m == DocumentedMatch(Strip(CurContent[i]))
            IN  (/\ LastHeader(CurContent, i) > 0
                 /\ DocumentedProgramLine(CurContent[i])
                 /\ parse_time_to_24h(Strip(m.time_str)) # NoneNone)
                => /\ i \notin Range(pstate.failed)
                   /\ Cardinality({k \in 1..Len(pstate.lines) :
                                       pstate.lines[k] = i}) = 1
                   /\ \A k \in 1..Len(pstate.lines) :
                          pstate.lines[k] = i =>
                              /\ pstate.programs[k].time_str = Strip(m.time_str)
                              /\ pstate.programs[k].title = Strip(m.title)

SortKey(r) ==
    <<DAYS_OF_WEEK(r.day), parse_time_to_24h(r.time_str)[1],
      parse_time_to_24h(r.time_str)[2]>>

Normalizes(r) == parse_time_to_24h(r.time_str) # NoneNone

\* C7: the returned list holds exactly the collected records whose token
\* normalizes, in non-decreasing (day index, hour, minute) order, records
\* of equal key in file order, each with its original token and with the
\* fields day, time_str, title and channel_id only.
C7_ReturnedListSorted ==
    (pc \in {"loop", "exit", "done"} /\ fidx > 1 /\ outcome[fidx - 1] = "ok") =>
        LET R == pstate.parsed_programs
            P == SelectSeq(pstate.programs, Normalizes)
        IN  /\ Len(R) = Len(P)
            /\ \A i \in 1..Len(R) :
                   /\ DOMAIN R[i] = {"day", "time_str", "title", "channel_id"}
                   /\ Normalizes(R[i])
            /\ \A i, j \in 1..Len(R) :
                   i < j => ~KeyLess(SortKey(R[j]), SortKey(R[i]))
            /\ \A x \in Range(P) \cup Range(R) :
                   LET Same(r) == SortKey(r) = SortKey(x)
                   IN  SelectSeq(R, Same) = SelectSeq(P, Same)

\* C7 witness: four records were collected, one token does not normalize,
\* and the other three come back reordered with the two equal keys in
\* file order.
C7_Witness ==
    /\ pc = "loop" /\ fidx > 1 /\ outcome[fidx - 1] = "ok"
    /\ Len(pstate.programs) = 4
    /\ [k \in 1..Len(pstate.parsed_programs) |-> pstate.parsed_programs[k].title]
           = <<<<"A">>, <<"C">>, <<"D">>>>
    /\ pstate.parsed_programs[2].time_str = T900am

\* what file i of the directory contributes when it is parsed to its end
Contribution(i) ==
    parse_schedule_file(dir[i].content, dir[i].name, ChannelOf(Lower(dir[i].name)))

\* C9: a file whose parse raises contributes no record; every other mapped
\* file is parsed and contributes exactly its own records; the document is
\* written unless all_programs ends up empty.
C9_FailedFileContributesNothing ==
    pc \in {"loop", "exit", "done"} =>
        /\ all_programs =
               Flatten([i \in 1..Len(dir) |->
                   IF outcome[i] = "ok" THEN Contribution(i) ELSE << >>])
        /\ \A i \in 1..Len(dir) :
               /\ (i < fidx) <=> (outcome[i] # "pending")
               /\ (outcome[i] \in {"ok", "error"}) => InChannelMap(Lower(dir[i].name))
               /\ (outcome[i] = "skipped") => ~InChannelMap(Lower(dir[i].name))
        /\ (pc = "done") <=> written
        /\ (pc = "done") => all_programs # << >> /\ doc.programmes # << >>
        /\ (pc = "exit") => all_programs = << >>

\* C9 witness: the first file was parsed, the second one raised after two
\* of its lines had given records, and the document was written from the
\* first file's records alone.
C9_Witness ==
    /\ pc = "done" /\ written
    /\ outcome = <<"ok", "error">>
    /\ Len(pstate.programs) = 2 /\ line_num < Len(dir[2].content)
    /\ all_programs = Contribution(1)
    /\ Len(all_programs) = 2

(***************************************************************************)
(* Properties of parse_time_to_24h                                         *)
(***************************************************************************)
ValidMarker(p) == Upper(p.mk) \in {<<"A", "M">>, <<"P", "M">>, <<"N", "N">>}

\* h in 1..12 and a two-digit minute in 00..59
ValidClock(p) ==
    /\ p.h # << >> /\ p.h # <<"0", "0">>
    /\ NumVal(p.h) \in 1..12
    /\ NumVal(p.m) \in 0..59

\* the tokens the claim names: 'h:mm', at most one space, then the marker
Canonical(p) ==
    /\ ValidClock(p) /\ Len(p.m) = 2 /\ ValidMarker(p)
    /\ p.gap \in {<< >>, <<" ">>}
    /\ p.lead = << >> /\ p.trail = << >>

\* the same tokens with any whitespace around them and before the marker,
\* and with a one-digit minute
Lenient(p) == ValidClock(p) /\ ValidMarker(p)

\* the 12-hour reference conversion
Reference(p) ==
    <<(NumVal(p.h) % 12) + (IF Upper(p.mk) = <<"A", "M">> THEN 0 ELSE 12),
      NumVal(p.m)>>

\* C8 (as claimed): the canonical tokens convert as the 12-hour reference
\* says and every other token gives (None, None).
C8_OnlyCanonicalAccepted ==
    tpc = "returned" =>
        tres = (IF Canonical(tokParts) THEN Reference(tokParts) ELSE NoneNone)

\* C8 (amended): the canonical tokens, and the same tokens written with
\* surrounding whitespace, any whitespace before the marker or a one-digit
\* minute, convert as the 12-hour reference says, into 0..23 / 0..59;
\* every other token gives (None, None).
C8_ReferenceConversion ==
    tpc = "returned" =>
        /\ tres = (IF Lenient(tokParts) THEN Reference(tokParts) ELSE NoneNone)
        /\ Canonical(tokParts) => tres = Reference(tokParts)
        /\ tres = NoneNone \/ (tres[1] \in 0..23 /\ tres[2] \in 0..59)

\* C8 witness: '12:30 AM' has been converted to (0, 30).
C8_Witness ==
    /\ tpc = "returned"
    /\ tok = <<"1", "2", ":", "3", "0", " ", "A", "M">>
    /\ Canonical(tokParts)
    /\ tres = <<0, 30>>

====
